---- MODULE Spec2Model ----
(***************************************************************************)
(* Model of the Xcrysden writers of abipy/iotools/xsf.py:                  *)
(*   xsf_write_structure, xsf_write_data and bxsf_write.                   *)
(*                                                                         *)
(* One behaviour is one call of one writer on a fresh sink.  The sink is   *)
(* a text stream: the texts of the write calls made on it, in order, and   *)
(* the number of flushes.  Real numbers are fixed-point integers counting  *)
(* hundredths (405 stands for 4.05); the printf conversions are computed   *)
(* digit by digit on them.                                                 *)
(***************************************************************************)
EXTENDS Integers, Sequences, FiniteSets, TLC

\* ------------------------------------------------------------------ bounds
MaxStructs == 2
MaxAtoms == 2
MaxDim == 2
MaxGrids == 2
MaxBand == 2

\* ------------------------------------------------------- Python's objects
None == [type |-> "NoneType"]

\* A str object: its characters, one per element.
PyStr(chars) == [type |-> "str", chars |-> chars]

LowerChar(c) ==
    CASE c = "A" -> "a" [] c = "B" -> "b" [] c = "C" -> "c" [] c = "E" -> "e"
      [] c = "F" -> "f" [] c = "I" -> "i" [] c = "M" -> "m" [] c = "R" -> "r"
      [] c = "S" -> "s" [] OTHER -> c

\* str.lower()
Lower(s) == PyStr([i \in DOMAIN s.chars |-> LowerChar(s.chars[i])])

\* --------------------------------------------------- printf conversions
Digit(d) ==
    CASE d = 0 -> "0" [] d = 1 -> "1" [] d = 2 -> "2" [] d = 3 -> "3"
      [] d = 4 -> "4" [] d = 5 -> "5" [] d = 6 -> "6" [] d = 7 -> "7"
      [] d = 8 -> "8" [] d = 9 -> "9"

RECURSIVE StrNat(_)
StrNat(k) == IF k < 10 THEN Digit(k) ELSE StrNat(k \div 10) \o Digit(k % 10)

\* str(k) and '%d' % k of an integer
StrInt(k) == IF k < 0 THEN "-" \o StrNat(-k) ELSE StrNat(k)

RECURSIVE Repeat(_, _)
Repeat(s, k) == IF k <= 0 THEN "" ELSE s \o Repeat(s, k - 1)

\* a printf field width: right-justified, space-padded, never truncated
PadLeft(s, w) == Repeat(" ", w - Len(s)) \o s

Magnitude(v) == IF v < 0 THEN -v ELSE v

\* '%w.pf' of the number v/100, for p >= 2
FmtF(v, w, p) ==
    PadLeft((IF v < 0 THEN "-" ELSE "")
              \o StrNat(Magnitude(v) \div 100) \o "."
              \o Digit((Magnitude(v) % 100) \div 10) \o Digit(Magnitude(v) % 10)
              \o Repeat("0", p - 2),
            w)

\* '%wd'
FmtD(k, w) == PadLeft(StrInt(k), w)

\* ' %2d' % atomic_numbers[a]
FmtAtomicNumber(z) == " " \o FmtD(z, 2)

\* ' %.14f %.14f %.14f' % tuple(cell[i])
FmtPrimvec(row) ==
    " " \o FmtF(row[1], 0, 14) \o " " \o FmtF(row[2], 0, 14)
        \o " " \o FmtF(row[3], 0, 14)

\* FmtCoords without the field width: ' %.14f %.14f %.14f'
FmtCoordsNoWidth(xyz) ==
    " " \o FmtF(xyz[1], 0, 14) \o " " \o FmtF(xyz[2], 0, 14)
        \o " " \o FmtF(xyz[3], 0, 14)

\* ' %20.14f %20.14f %20.14f' % tuple(cart_coords[a])
FmtCoords(xyz) ==
    " " \o FmtF(xyz[1], 20, 14) \o " " \o FmtF(xyz[2], 20, 14)
        \o " " \o FmtF(xyz[3], 20, 14)

\* '%f %f %f' % tuple(v)
FmtF3(v) == FmtF(v[1], 0, 6) \o " " \o FmtF(v[2], 0, 6) \o " " \o FmtF(v[3], 0, 6)

\* str(x) of the float v/100: the shortest decimal, with at least one of them
StrFloat(v) ==
    (IF v < 0 THEN "-" ELSE "") \o StrNat(Magnitude(v) \div 100) \o "."
      \o Digit((Magnitude(v) % 100) \div 10)
      \o (IF Magnitude(v) % 10 = 0 THEN "" ELSE Digit(Magnitude(v) % 10))

\* '%.18e' % x, np.savetxt's format, for x = v/100 with 1 <= |x| < 10 or x = 0
FmtE18(v) ==
    (IF v < 0 THEN "-" ELSE "") \o Digit(Magnitude(v) \div 100) \o "."
      \o Digit((Magnitude(v) % 100) \div 10) \o Digit(Magnitude(v) % 10)
      \o Repeat("0", 16) \o "e+00"

\* ------------------------------------------------------------- the sink
\* A sink is the sequence of the texts written to it, one element for each
\* write call, and the number of flushes.  The text of a write call is a
\* sequence of pieces; the piece "\n" is a line end.

\* A writable stream nothing has been written to.
NewStream == [kind |-> "stream", writes |-> <<>>, nflush |-> 0]

\* A path name passed where a stream is expected: it has no write attribute.
PathName == [kind |-> "str", writes |-> <<>>, nflush |-> 0]

\* file.write(text)
Write(f, pieces) == [f EXCEPT !.writes = Append(@, pieces)]

\* consecutive write calls
WriteAll(f, writes) == [f EXCEPT !.writes = @ \o writes]

\* file.flush()
Flush(f) == [f EXCEPT !.nflush = @ + 1]

\* ' '.join(strs)
RECURSIVE JoinSpace(_)
JoinSpace(strs) ==
    IF strs = <<>> THEN ""
    ELSE IF Len(strs) = 1 THEN strs[1]
    ELSE LET h == Len(strs) \div 2
         IN  JoinSpace(SubSeq(strs, 1, h)) \o " " \o JoinSpace(SubSeq(strs, h + 1, Len(strs)))

\* the concatenation of a sequence of sequences
RECURSIVE Concat(_)
Concat(seqs) ==
    IF seqs = <<>> THEN <<>>
    ELSE IF Len(seqs) = 1 THEN seqs[1]
    ELSE LET h == Len(seqs) \div 2
         IN  Concat(SubSeq(seqs, 1, h)) \o Concat(SubSeq(seqs, h + 1, Len(seqs)))

\* ------------------------------------------------------------ structures
\* A structure object as the writers use it: lattice_vectors(space="r") gives
\* cell, the reciprocal vectors are gcell, and attrs are the method names the
\* object answers to (Python looks a method up by name at the call).
CellA == << <<405, 0, 0>>, <<0, 405, 0>>, <<0, 0, 405>> >>
CellB == << <<0, 271, 271>>, <<271, 0, 271>>, <<-150, 150, 1225>> >>
GcellA == << <<155, 0, 0>>, <<0, 155, 0>>, <<0, 0, 155>> >>
GcellB == << <<-116, 116, 116>>, <<116, -116, 116>>, <<116, 116, -116>> >>

\* (atomic number, Cartesian coordinates) of the sites a structure may hold
SiteList == <<
    [z |-> 13, xyz |-> <<0, 0, 0>>],
    [z |-> 1, xyz |-> <<-125, 1050, 5>>],
    [z |-> 118, xyz |-> <<202, 202, 202>>],
    [z |-> 8, xyz |-> <<99, -1, 10000>>] >>

MkStructure(cell, gcell, first, natom, attrs) ==
    [cell |-> cell, gcell |-> gcell,
     atomic_numbers |-> [a \in 1..natom |-> SiteList[((first + a - 2) % Len(SiteList)) + 1].z],
     cart_coords |-> [a \in 1..natom |-> SiteList[((first + a - 2) % Len(SiteList)) + 1].xyz],
     attrs |-> attrs]

Structures ==
    { MkStructure(CellA, GcellA, 1, k, {"lattice_vectors"}) : k \in 0..MaxAtoms }
      \cup { MkStructure(CellB, GcellB, 2, k, {"lattice_vectors"}) : k \in 0..MaxAtoms }

\* sequences of at most MaxStructs structures
StructureLists == UNION { [1..k -> Structures] : k \in 0..MaxStructs }

\* ---------------------------------------------------------------- arrays
\* An array is its dtype ("float" or "complex"), its rank ndim and its values v,
\* nested sequences ndim deep; a complex value is [re, im].

RECURSIVE ShapeOf(_, _)
ShapeOf(v, ndim) == IF ndim = 0 THEN <<>> ELSE <<Len(v)>> \o ShapeOf(v[1], ndim - 1)

\* arr.shape
Shape(arr) == ShapeOf(arr.v, arr.ndim)

\* np.iscomplexobj(arr)
IsComplexObj(arr) == arr.dtype = "complex"

\* a number that tells the 0-based index tuples apart
RECURSIVE Code(_)
Code(ix) ==
    IF ix = <<>> THEN 0 ELSE 5 * Code(SubSeq(ix, 1, Len(ix) - 1)) + ix[Len(ix)]

\* the value an input field holds at an index: the real fields hold distinct
\* values of both signs, the complex ones values of integral magnitude
Elem(dtype, ix) ==
    IF dtype = "float" THEN 2 * Code(ix) - 5
    ELSE [re |-> 3 * (Code(ix) - 2), im |-> -4 * (Code(ix) - 2)]

RECURSIVE Build(_, _, _)
Build(dtype, shp, ix) ==
    IF Len(ix) = Len(shp) THEN Elem(dtype, ix)
    ELSE [i \in 1..shp[Len(ix) + 1] |-> Build(dtype, shp, Append(ix, i - 1))]

MkArray(dtype, shp) == [dtype |-> dtype, ndim |-> Len(shp), v |-> Build(dtype, shp, <<>>)]

\* the shapes of the fields passed to xsf_write_data: every rank-3 shape, every
\* rank-4 shape, and some shapes of the ranks it does not support
GridShapes == { <<a, b, c>> : a \in 1..MaxDim, b \in 1..MaxDim, c \in 1..MaxDim }
FieldShapes ==
    GridShapes
      \cup { <<g>> \o s : g \in 1..MaxGrids, s \in GridShapes }
      \cup { <<2>>, <<1, 2>>, <<1, 2, 1, 2, 1>> }

\* the dtypes of the fields passed to xsf_write_data
FieldTypes == {"float", "complex"}

\* the values passed as cplx_mode
Modes ==
    { None,
      PyStr(<<"r", "e">>), PyStr(<<"R", "E">>), PyStr(<<"R", "e">>),
      PyStr(<<"i", "m">>), PyStr(<<"I", "m">>),
      PyStr(<<"a", "b", "s">>), PyStr(<<"A", "b", "S">>),
      PyStr(<<"a", "n", "g", "l", "e">>), PyStr(<<"r", "e", "a", "l">>), PyStr(<<>>) }

\* v with, along each of its depth axes, a copy of the first slice appended
RECURSIVE Closed(_, _)
Closed(v, depth) ==
    IF depth = 0 THEN v
    ELSE LET inner == [i \in DOMAIN v |-> Closed(v[i], depth - 1)]
         IN  Append(inner, inner[1])

RECURSIVE AddReplicas(_, _)
AddReplicas(v, ndim) ==
    IF ndim > 3 THEN [i \in DOMAIN v |-> AddReplicas(v[i], ndim - 1)]
    ELSE Closed(v, ndim)

\* abipy.tools.add_periodic_replicas: the last three axes get one more point
add_periodic_replicas(arr) == [arr EXCEPT !.v = AddReplicas(arr.v, arr.ndim)]

\* abipy.tools.transpose_last3dims of a rank-4 array: (g,x,y,z) --> (g,z,y,x)
transpose_last3dims(arr) ==
    LET shp == Shape(arr)
    IN  [arr EXCEPT !.v =
           [g \in 1..shp[1] |-> [z \in 1..shp[4] |-> [y \in 1..shp[3] |->
              [x \in 1..shp[2] |-> arr.v[g][x][y][z]]]]]]

\* the integer square root, by bisection
RECURSIVE SqrtIn(_, _, _)
SqrtIn(k, lo, hi) ==
    IF lo = hi THEN lo
    ELSE LET mid == (lo + hi + 1) \div 2
         IN  IF mid * mid <= k THEN SqrtIn(k, mid, hi) ELSE SqrtIn(k, lo, mid - 1)

\* abs(c) of a complex value of integral magnitude
ComplexAbs(c) == SqrtIn(c.re * c.re + c.im * c.im, 0, 46340)

\* lines 91-96 on one complex value, mode being "re", "im" or "abs"
ReduceElem(c, mode) ==
    IF mode = <<"r", "e">> THEN c.re
    ELSE IF mode = <<"i", "m">> THEN c.im
    ELSE ComplexAbs(c)

RECURSIVE ReduceValues(_, _, _)
ReduceValues(v, depth, mode) ==
    IF depth = 0 THEN ReduceElem(v, mode)
    ELSE [i \in DOMAIN v |-> ReduceValues(v[i], depth - 1, mode)]

\* data.real, data.imag, np.abs(data): a real array of the same shape
Reduce(arr, mode) ==
    [dtype |-> "float", ndim |-> arr.ndim, v |-> ReduceValues(arr.v, arr.ndim, mode.chars)]

\* np.asarray([arr])
AsArrayOfOne(arr) == [dtype |-> arr.dtype, ndim |-> arr.ndim + 1, v |-> <<arr.v>>]

\* shape[-3:]
Last3(shp) == SubSeq(shp, Len(shp) - 2, Len(shp))

\* ---------------------------------------------------------------- state
VARIABLES
    pc,          \* position in the running call
    call,        \* the function called and its arguments, as the caller passed them
    file,        \* the sink
    err,         \* the exception the call raised, "none" while there is none
    structures,  \* xsf_write_structure: structures after line 26
    n,           \* xsf_write_structure: index of the structure being written
    data,        \* xsf_write_data: the array data names
    cplx_mode,   \* xsf_write_data: cplx_mode, lowered by line 90
    shape,       \* xsf_write_data: data.shape at line 100
    ngrids,      \* xsf_write_data: number of grids to write
    fdata,       \* xsf_write_data: the transposed array
    dg,          \* xsf_write_data: index of the grid being written
    idx,         \* bxsf_write: running index of the BAND sub-blocks
    band,        \* bxsf_write: band of the loop of line 195
    spin         \* bxsf_write: spin of the loop of line 196

vars == <<pc, call, file, err, structures, n, data, cplx_mode, shape, ngrids, fdata, dg,
          idx, band, spin>>

structVars == <<structures, n>>
dataVars == <<data, cplx_mode, shape, ngrids, fdata, dg>>
bandVars == <<idx, band, spin>>

Init ==
    /\ pc = "idle"
    /\ call = [fn |-> "none"]
    /\ file = NewStream
    /\ err = "none"
    /\ structures = None
    /\ n = None
    /\ data = None
    /\ cplx_mode = None
    /\ shape = None
    /\ ngrids = None
    /\ fdata = None
    /\ dg = None
    /\ idx = None
    /\ band = None
    /\ spin = None

\* --------------------------------------------------- xsf_write_structure
\* lines 25-26: a structure that is not a list or tuple is wrapped in a list
AsList(arg) == IF arg.islist THEN arg.items ELSE <<arg.items>>

\* lines 50-54 for atom a (1-based here): forces is None on every path (line 42),
\* so the line ends right after the coordinates
AtomWrites(struct, a) ==
    << <<FmtAtomicNumber(struct.atomic_numbers[a])>>,
       <<FmtCoords(struct.cart_coords[a])>>,
       <<"\n">> >>

\* StructureWrites numbering the blocks from 0: 'PRIMVEC %d' % n
StructureWritesZeroBased(k, struct) ==
    << <<"# Primitive lattice vectors in Angstrom", "\n">>,
       <<"PRIMVEC " \o StrInt(k), "\n">> >>
    \o [i \in 1..3 |-> <<FmtPrimvec(struct.cell[i]), "\n">>]
    \o << <<"# Cartesian coordinates in Angstrom.", "\n">>,
          <<"PRIMCOORD " \o StrInt(k), "\n">>,
          <<" " \o StrInt(Len(struct.cart_coords)) \o " 1", "\n">> >>
    \o Concat([a \in 1..Len(struct.cart_coords) |-> AtomWrites(struct, a)])

\* lines 33-56 for the structure at 0-based index k
StructureWrites(k, struct) ==
    << <<"# Primitive lattice vectors in Angstrom", "\n">>,
       <<"PRIMVEC " \o StrInt(k + 1), "\n">> >>
    \o [i \in 1..3 |-> <<FmtPrimvec(struct.cell[i]), "\n">>]
    \o << <<"# Cartesian coordinates in Angstrom.", "\n">>,
          <<"PRIMCOORD " \o StrInt(k + 1), "\n">>,
          <<" " \o StrInt(Len(struct.cart_coords)) \o " 1", "\n">> >>
    \o Concat([a \in 1..Len(struct.cart_coords) |-> AtomWrites(struct, a)])

\* xsf_write_structure(file, structures): lines 25-30
XsfWriteStructureCall ==
    /\ pc = "idle"
    /\ \E arg \in [islist : {TRUE}, items : StructureLists]
                    \cup [islist : {FALSE}, items : Structures] :
         /\ call' = [fn |-> "xsf_write_structure", structures |-> arg]
         /\ structures' = AsList(arg)
    /\ file' = Write(NewStream, <<"CRYSTAL", "\n">>)
    /\ n' = 0
    /\ pc' = "xs_loop"
    /\ UNCHANGED <<err, dataVars, bandVars>>

\* one turn of the loop of line 32
XsfWriteStructureLoop ==
    /\ pc = "xs_loop"
    /\ n < Len(structures)
    /\ file' = WriteAll(file, StructureWrites(n, structures[n + 1]))
    /\ n' = n + 1
    /\ UNCHANGED <<pc, call, err, structures, dataVars, bandVars>>

\* the loop of line 32 is exhausted: the function returns
XsfWriteStructureReturn ==
    /\ pc = "xs_loop"
    /\ n = Len(structures)
    /\ pc' = "done"
    /\ UNCHANGED <<call, file, err, structures, n, dataVars, bandVars>>

\* -------------------------------------------------------- xsf_write_data
\* the padding done whatever add_replicas says
AlwaysReplicas(arr, flag) == add_periodic_replicas(arr)

\* lines 84-85
MaybeReplicas(arr, flag) == IF flag THEN add_periodic_replicas(arr) ELSE arr

\* CplxOutcome comparing cplx_mode as passed, without line 90's lower()
CplxOutcomeCaseSensitive(arr, mode) ==
    IF ~IsComplexObj(arr) THEN [raised |-> "none", data |-> arr, cplx_mode |-> mode]
    ELSE IF mode = None THEN [raised |-> "TypeError", data |-> arr, cplx_mode |-> mode]
    ELSE IF mode.chars \in {<<"r", "e">>, <<"i", "m">>, <<"a", "b", "s">>}
         THEN [raised |-> "none", data |-> Reduce(arr, mode), cplx_mode |-> mode]
         ELSE [raised |-> "ValueError", data |-> arr, cplx_mode |-> mode]

\* lines 87-98: what is raised, and what data and cplx_mode name afterwards
CplxOutcome(arr, mode) ==
    IF ~IsComplexObj(arr) THEN [raised |-> "none", data |-> arr, cplx_mode |-> mode]
    ELSE IF mode = None THEN [raised |-> "TypeError", data |-> arr, cplx_mode |-> mode]
    ELSE LET low == Lower(mode)
         IN  IF low.chars \in {<<"r", "e">>, <<"i", "m">>, <<"a", "b", "s">>}
             THEN [raised |-> "none", data |-> Reduce(arr, low), cplx_mode |-> low]
             ELSE [raised |-> "ValueError", data |-> arr, cplx_mode |-> low]

\* the line of line 133: the values of fdata[g, z, y], g, z and y 1-based here
ValueLine(fd, g, z, y) ==
    JoinSpace([x \in 1..Len(fd.v[g][z][y]) |-> FmtF(fd.v[g][z][y][x], 0, 6)])

\* lines 130-135 with the two loops exchanged: y outside, z inside
GridValueWritesYZ(fd, g) ==
    LET fgrid == Last3(Shape(fd))
        per == 2 * fgrid[1] + 1
    IN  [i \in 1..(fgrid[2] * per) |->
          LET y == ((i - 1) \div per) + 1
              r == (i - 1) % per
          IN  IF r < 2 * fgrid[1] /\ r % 2 = 0
              THEN <<ValueLine(fd, g, (r \div 2) + 1, y)>>
              ELSE <<"\n">>]

\* lines 130-135: the writes of the values of grid g (1-based here), in the
\* order the loops make them.  Each z makes 2 * fgrid[1] + 1 writes: for each y
\* the line of values (line 133) and its end (line 134), then an empty line
\* (line 135).
GridValueWrites(fd, g) ==
    LET fgrid == Last3(Shape(fd))
        per == 2 * fgrid[2] + 1
    IN  [i \in 1..(fgrid[1] * per) |->
          LET z == ((i - 1) \div per) + 1
              r == (i - 1) % per
          IN  IF r < 2 * fgrid[2] /\ r % 2 = 0
              THEN <<ValueLine(fd, g, z, (r \div 2) + 1)>>
              ELSE <<"\n">>]

\* lines 123-137 for the grid at 0-based index k
GridWrites(k, shp, cell, fd) ==
    << <<" BEGIN_DATAGRID_3Dgrid#", StrInt(k + 1), "\n">>,
       <<StrInt(Last3(shp)[1]) \o " " \o StrInt(Last3(shp)[2]) \o " "
           \o StrInt(Last3(shp)[3]), "\n">>,
       <<FmtF3(<<0, 0, 0>>), "\n">> >>
    \o [i \in 1..3 |-> <<FmtF3(cell[i]), "\n">>]
    \o GridValueWrites(fd, k + 1)
    \o << <<" END_DATAGRID_3D", "\n">> >>

\* the exception e leaves the function
Raise(e) == pc' = "raised" /\ err' = e

\* the structures passed to xsf_write_data
DataStructures ==
    { MkStructure(CellA, GcellA, 1, 1, {"lattice_vectors"}),
      MkStructure(CellB, GcellB, 2, 0, {"lattice_vectors"}) }

\* xsf_write_data(file, structure, data, add_replicas, cplx_mode): lines 81-85
XsfWriteDataCall ==
    /\ pc = "idle"
    /\ \E st \in DataStructures, t \in FieldTypes, shp \in FieldShapes,
          flag \in BOOLEAN, mode \in Modes :
         /\ call' = [fn |-> "xsf_write_data", structure |-> st, data |-> MkArray(t, shp),
                     add_replicas |-> flag, cplx_mode |-> mode]
         /\ data' = MaybeReplicas(MkArray(t, shp), flag)
         /\ cplx_mode' = mode
    /\ pc' = "xd_cplx"
    /\ UNCHANGED <<file, err, structVars, shape, ngrids, fdata, dg, bandVars>>

\* lines 87-98
XsfWriteDataCplx ==
    /\ pc = "xd_cplx"
    /\ LET out == CplxOutcome(data, cplx_mode)
       IN  /\ data' = out.data
           /\ cplx_mode' = out.cplx_mode
           /\ IF out.raised = "none" THEN pc' = "xd_rank" /\ UNCHANGED err
              ELSE Raise(out.raised)
    /\ UNCHANGED <<call, file, structVars, shape, ngrids, fdata, dg, bandVars>>

\* RankError raising the exception of line 89 instead of that of line 109
RankErrorAsTypeError(ndim) == IF ndim = 3 \/ ndim = 4 THEN "none" ELSE "TypeError"

\* lines 103-109: the exception raised for an array of rank ndim
RankError(ndim) == IF ndim = 3 \/ ndim = 4 THEN "none" ELSE "ValueError"

\* lines 100-117
XsfWriteDataRank ==
    /\ pc = "xd_rank"
    /\ shape' = Shape(data)
    /\ IF RankError(data.ndim) # "none"
         THEN /\ Raise(RankError(data.ndim))
              /\ UNCHANGED <<data, ngrids, fdata>>
         ELSE IF data.ndim = 3
         THEN /\ ngrids' = 1
              /\ data' = AsArrayOfOne(data)
              /\ fdata' = transpose_last3dims(data')
              /\ pc' = "xd_begin"
              /\ UNCHANGED err
         ELSE /\ ngrids' = shape'[1]
              /\ fdata' = transpose_last3dims(data)
              /\ pc' = "xd_begin"
              /\ UNCHANGED <<data, err>>
    /\ UNCHANGED <<call, file, structVars, cplx_mode, dg, bandVars>>

\* lines 119-120
XsfWriteDataBegin ==
    /\ pc = "xd_begin"
    /\ file' = WriteAll(file, << <<"BEGIN_BLOCK_DATAGRID_3D", "\n">>, <<" data", "\n">> >>)
    /\ dg' = 0
    /\ pc' = "xd_grid"
    /\ UNCHANGED <<call, err, structVars, data, cplx_mode, shape, ngrids, fdata, bandVars>>

\* one turn of the loop of line 122
XsfWriteDataGrid ==
    /\ pc = "xd_grid"
    /\ dg < ngrids
    /\ file' = WriteAll(file, GridWrites(dg, shape, call.structure.cell, fdata))
    /\ dg' = dg + 1
    /\ UNCHANGED <<pc, call, err, structVars, data, cplx_mode, shape, ngrids, fdata, bandVars>>

\* line 138, after the loop of line 122
XsfWriteDataEnd ==
    /\ pc = "xd_grid"
    /\ dg = ngrids
    /\ file' = Write(file, <<"END_BLOCK_DATAGRID_3D", "\n">>)
    /\ pc' = "done"
    /\ UNCHANGED <<call, err, structVars, dataVars, bandVars>>

\* ------------------------------------------------------------ bxsf_write
\* the band meshes passed to bxsf_write: enebz(spin, band) is the array of the
\* energies of one band, distinct for distinct (spin, band)
MeshEnergies == [s \in 0..1 |-> [b \in 0..MaxBand |->
                   <<100 * (b + 1) + 25 * s, -(100 * (b + 1) + 25 * s + 50)>>]]

Meshes ==
    [pbc : {<<TRUE, TRUE, TRUE>>, <<TRUE, FALSE, TRUE>>, <<FALSE, FALSE, FALSE>>},
     korder : {PyStr(<<"c">>), PyStr(<<"C">>), PyStr(<<"f">>), PyStr(<<"F">>)},
     shifts : {<<0, 0, 0>>, <<50, 50, 50>>, <<0, 0, -50>>},
     nsppol : {1, 2},
     nband : 1..MaxBand,
     ndivs : {<<1, 1, 1>>, <<2, 3, 12>>},
     enebz : {MeshEnergies}]

\* the structures passed to bxsf_write: all answer to lattice_vectors, as the
\* other two writers require, and some to other names as well
BandStructures ==
    { MkStructure(CellA, GcellA, 1, 1, {"lattice_vectors"}),
      MkStructure(CellB, GcellB, 2, 2, {"lattice_vectors"}),
      MkStructure(CellA, GcellA, 1, 1, {"lattice_vectors", "lattive_vectors"}),
      MkStructure(CellB, GcellB, 2, 2, {"lattice_vectors", "lattive_vectors"}) }

\* hasattr(obj, name)
HasAttr(obj, name) == name \in obj.attrs

\* CheckMesh without the test of line 162
CheckMeshNoShifts(bands3d) ==
    IF ~(\A i \in 1..3 : bands3d.pbc[i]) THEN "ValueError"
    ELSE IF Lower(bands3d.korder) # PyStr(<<"c">>) THEN "ValueError"
    ELSE "none"

\* lines 156-163: the exception the consistency checks raise
CheckMesh(bands3d) ==
    IF ~(\A i \in 1..3 : bands3d.pbc[i]) THEN "ValueError"
    ELSE IF Lower(bands3d.korder) # PyStr(<<"c">>) THEN "ValueError"
    ELSE IF \E i \in 1..3 : bands3d.shifts[i] # 0 THEN "ValueError"
    ELSE "none"

\* lines 171-186
HeaderWrites(bands3d, fermie) ==
    << <<"BEGIN_INFO", "\n">>,
       <<"# Band-XCRYSDEN-Structure-File for Visualization of Fermi Surface generated by the ABINIT package", "\n">>,
       <<"# NOTE: the first band is relative to spin-up electrons,", "\n">>,
       <<"#       the second band to spin-down electrons (if any) and so on ...", "\n", "#", "\n">>,
       <<"# Launch as: xcrysden --bxsf", "\n", "#", "\n">>,
       <<" Fermi Energy: " \o StrFloat(fermie), "\n">>,
       <<"END_INFO", "\n", "\n">>,
       <<"BEGIN_BLOCK_BANDGRID_3D", "\n">>,
       <<" band_energies", "\n">>,
       <<" BEGIN_BANDGRID_3D", "\n">>,
       <<StrInt(bands3d.nsppol * bands3d.nband), "\n">>,
       <<StrInt(bands3d.ndivs[1] + 1) \o " " \o StrInt(bands3d.ndivs[2] + 1) \o " "
           \o StrInt(bands3d.ndivs[3] + 1), "\n">>,
       <<"0 0 0", "\n">> >>

\* np.savetxt(file, X) of a one-dimensional X: a write for each value
SaveTxt(X) == [i \in 1..Len(X) |-> <<FmtE18(X[i]), "\n">>]

\* lines 198-200, idx being k after line 197
BandWrites(bands3d, k, sp, bnd) ==
    << <<" BAND: " \o StrInt(k), "\n">> >> \o SaveTxt(bands3d.enebz[sp][bnd])

\* bxsf_write(file, bands3d, structure, fermie)
BxsfWriteCall ==
    /\ pc = "idle"
    /\ \E f \in {NewStream, PathName}, mesh \in Meshes, st \in BandStructures,
          fermie \in {0, 405, -550} :
         /\ call' = [fn |-> "bxsf_write", file |-> f, bands3d |-> mesh,
                     structure |-> st, fermie |-> fermie]
         /\ file' = f
    /\ pc' = "bx_checks"
    /\ UNCHANGED <<err, structVars, dataVars, bandVars>>

\* lines 156-166: the three consistency checks, then a file without a write
\* attribute is called as file(file, mode="w"), which a str does not support
BxsfWriteChecks ==
    /\ pc = "bx_checks"
    /\ IF CheckMesh(call.bands3d) # "none" THEN Raise(CheckMesh(call.bands3d))
       ELSE IF file.kind # "stream" THEN Raise("TypeError")
       ELSE pc' = "bx_header" /\ UNCHANGED err
    /\ UNCHANGED <<call, file, structVars, dataVars, bandVars>>

\* lines 168-186
BxsfWriteHeader ==
    /\ pc = "bx_header"
    /\ file' = WriteAll(file, HeaderWrites(call.bands3d, call.fermie))
    /\ pc' = "bx_gcell"
    /\ UNCHANGED <<call, err, structVars, dataVars, bandVars>>

\* lines 189-194: the reciprocal lattice is asked of structure.lattive_vectors
BxsfWriteGcell ==
    /\ pc = "bx_gcell"
    /\ IF HasAttr(call.structure, "lattive_vectors")
       THEN /\ file' = WriteAll(file, [i \in 1..3 |-> <<FmtF3(call.structure.gcell[i]), "\n">>])
            /\ idx' = 0
            /\ band' = 0
            /\ spin' = 0
            /\ pc' = "bx_bands"
            /\ UNCHANGED err
       ELSE /\ Raise("AttributeError")
            /\ UNCHANGED <<file, bandVars>>
    /\ UNCHANGED <<call, structVars, dataVars>>

\* one turn of the loops of lines 195-196
BxsfWriteBand ==
    /\ pc = "bx_bands"
    /\ band < call.bands3d.nband
    /\ idx' = idx + 1
    /\ file' = WriteAll(file, BandWrites(call.bands3d, idx', spin, band))
    /\ IF spin + 1 < call.bands3d.nsppol
       THEN spin' = spin + 1 /\ UNCHANGED band
       ELSE spin' = 0 /\ band' = band + 1
    /\ UNCHANGED <<pc, call, err, structVars, dataVars>>

\* lines 202-205, after the loops
BxsfWriteEnd ==
    /\ pc = "bx_bands"
    /\ band = call.bands3d.nband
    /\ file' = Flush(WriteAll(file, << <<" END_BANDGRID_3D", "\n">>,
                                       <<"END_BLOCK_BANDGRID_3D", "\n">> >>))
    /\ pc' = "done"
    /\ UNCHANGED <<call, err, structVars, dataVars, bandVars>>

Next ==
    \/ XsfWriteStructureCall
    \/ XsfWriteStructureLoop
    \/ XsfWriteStructureReturn
    \/ XsfWriteDataCall
    \/ XsfWriteDataCplx
    \/ XsfWriteDataRank
    \/ XsfWriteDataBegin
    \/ XsfWriteDataGrid
    \/ XsfWriteDataEnd
    \/ BxsfWriteCall
    \/ BxsfWriteChecks
    \/ BxsfWriteHeader
    \/ BxsfWriteGcell
    \/ BxsfWriteBand
    \/ BxsfWriteEnd

Spec == Init /\ [][Next]_vars

\* ================================================================ claims
\* The text of the sink read as lines.  A run of pieces is summed up as the
\* text before its first line end (first), whether it holds a line end (nl),
\* the lines between its first and last line ends (mid) and the text after
\* its last line end (last); two runs that follow each other join as Join says.
Join(a, b) ==
    IF ~a.nl /\ ~b.nl
    THEN [first |-> a.first \o b.first, nl |-> FALSE, mid |-> <<>>, last |-> ""]
    ELSE IF ~a.nl THEN [b EXCEPT !.first = a.first \o @]
    ELSE IF ~b.nl THEN [a EXCEPT !.last = @ \o b.first]
    ELSE [first |-> a.first, nl |-> TRUE,
          mid |-> a.mid \o <<a.last \o b.first>> \o b.mid, last |-> b.last]

RECURSIVE Run(_)
Run(pieces) ==
    IF pieces = <<>> THEN [first |-> "", nl |-> FALSE, mid |-> <<>>, last |-> ""]
    ELSE IF Len(pieces) = 1
    THEN IF pieces[1] = "\n"
         THEN [first |-> "", nl |-> TRUE, mid |-> <<>>, last |-> ""]
         ELSE [first |-> pieces[1], nl |-> FALSE, mid |-> <<>>, last |-> ""]
    ELSE LET h == Len(pieces) \div 2
         IN  Join(Run(SubSeq(pieces, 1, h)), Run(SubSeq(pieces, h + 1, Len(pieces))))

\* the lines completed so far, and the unterminated tail cur
Text ==
    LET r == Run(Concat(file.writes))
    IN  IF r.nl THEN [lines |-> <<r.first>> \o r.mid, cur |-> r.last]
        ELSE [lines |-> <<>>, cur |-> r.first]

\* the number of write calls the sink has received
NWrites == Len(file.writes)

\* the indices of the lines of L equal to s
At(L, s) == { i \in 1..Len(L) : L[i] = s }

\* the index of the line of L equal to s, when there is exactly one
Pos(L, s) == CHOOSE i \in At(L, s) : TRUE

\* xsf_write_structure has returned
StructureDone == call.fn = "xsf_write_structure" /\ pc = "done"

\* the sequence of structures a call was given: one structure counts as a
\* sequence of length 1
Given == IF call.structures.islist THEN call.structures.items
         ELSE <<call.structures.items>>

\* the first line after the block of structure k (1-based) in a file of N blocks
BlockEnd(L, k, N) ==
    IF k < N THEN Pos(L, "PRIMVEC " \o StrInt(k + 1)) - 1 ELSE Len(L) + 1

\* C5: xsf_write_structure writes CRYSTAL exactly once, as the first line, and
\* then for k = 1..N in input order a PRIMVEC k block of exactly 3 lattice
\* lines followed by a PRIMCOORD k block: a count line giving the atom count
\* and exactly one line per atom, none with force columns.  One structure not
\* wrapped in a list gives k = 1 alone.
C5_StructureBlocks ==
    StructureDone =>
      LET L == Text.lines
          N == Len(Given)
          pv(k) == Pos(L, "PRIMVEC " \o StrInt(k))
          pcd(k) == Pos(L, "PRIMCOORD " \o StrInt(k))
      IN  /\ Text.cur = ""
          /\ At(L, "CRYSTAL") = {1}
          /\ \A k \in 0..(MaxStructs + 2) :
                /\ Cardinality(At(L, "PRIMVEC " \o StrInt(k))) = (IF k \in 1..N THEN 1 ELSE 0)
                /\ Cardinality(At(L, "PRIMCOORD " \o StrInt(k))) = (IF k \in 1..N THEN 1 ELSE 0)
          /\ N = 0 => Len(L) = 1
          /\ N > 0 => pv(1) = 3
          /\ \A k \in 1..N :
                LET st == Given[k]
                    natom == Len(st.cart_coords)
                IN  /\ \A i \in 1..3 : L[pv(k) + i] = FmtPrimvec(st.cell[i])
                    /\ L[pv(k) + 4] = "# Cartesian coordinates in Angstrom."
                    /\ pcd(k) = pv(k) + 5
                    /\ L[pcd(k) + 1] = " " \o StrInt(natom) \o " 1"
                    /\ \A a \in 1..natom :
                          L[pcd(k) + 1 + a] =
                            FmtAtomicNumber(st.atomic_numbers[a]) \o FmtCoords(st.cart_coords[a])
                    /\ BlockEnd(L, k, N) = pcd(k) + 2 + natom

\* C5 witness: a call given two structures in a list, the second with atoms,
\* has returned
C5_Witness ==
    /\ StructureDone
    /\ call.structures.islist
    /\ Len(Given) = 2
    /\ Len(Given[2].cart_coords) = 2

\* a call given exactly one structure, of one atom of atomic number 13 at the
\* origin, has returned
OneAluminium ==
    /\ StructureDone
    /\ Len(Given) = 1
    /\ Given[1].atomic_numbers = <<13>>
    /\ Given[1].cart_coords = << <<0, 0, 0>> >>

\* C6 as stated: the PRIMCOORD 1 block has exactly one atom line, the text
\* "13  0.00000000000000  0.00000000000000  0.00000000000000"
C6_AsStated ==
    OneAluminium =>
      LET L == Text.lines
          p == Pos(L, "PRIMCOORD 1")
      IN  /\ Len(L) = p + 2
          /\ L[p + 2] = "13  0.00000000000000  0.00000000000000  0.00000000000000"

\* C6 amended: the PRIMCOORD 1 block has exactly one atom line; it is the
\* atomic number right-justified in 2 characters after one space, then each
\* coordinate with 14 decimals right-justified in a 20-character field after
\* one space
C6_AtomLine ==
    OneAluminium =>
      LET L == Text.lines
          p == Pos(L, "PRIMCOORD 1")
      IN  /\ At(L, "PRIMCOORD 1") = {p}
          /\ L[p + 1] = " 1 1"
          /\ Len(L) = p + 2
          /\ L[p + 2] =
               " 13     0.00000000000000     0.00000000000000     0.00000000000000"

\* C6 witness: the single aluminium atom has been written
C6_Witness == OneAluminium /\ NWrites > 0

\* ------------------------------------------------------------ bxsf_write
\* bxsf_write is the function called
BandCall == call.fn = "bxsf_write"

\* a band mesh that breaks one of the three preconditions
BadMesh(m) ==
    \/ \E i \in 1..3 : ~m.pbc[i]
    \/ m.korder.chars \notin {<<"c">>, <<"C">>}
    \/ \E i \in 1..3 : m.shifts[i] # 0

\* C1: bxsf_write given a band mesh without the redundant boundary points on
\* some axis, or of an ordering other than "C" in either case, or with a
\* non-zero shift, fails with a ValueError, and the sink receives no write
\* (and no flush) at any point of the call.
C1_RejectBeforeWrite ==
    (BandCall /\ BadMesh(call.bands3d)) =>
      /\ NWrites = 0
      /\ file.nflush = 0
      /\ pc \in {"bx_checks", "raised"}
      /\ pc = "raised" => err = "ValueError"

\* C1 witness: a mesh whose only fault is its shift has been rejected
C1_Witness ==
    /\ BandCall
    /\ pc = "raised"
    /\ err = "ValueError"
    /\ call.bands3d.pbc = <<TRUE, TRUE, TRUE>>
    /\ call.bands3d.korder.chars = <<"C">>
    /\ call.bands3d.shifts = <<0, 0, -50>>

\* a call of bxsf_write with a writable sink, a mesh that meets the three
\* preconditions and a structure that gives its lattice vectors has ended
GoodBandCallEnded ==
    /\ BandCall
    /\ call.file.kind = "stream"
    /\ ~BadMesh(call.bands3d)
    /\ HasAttr(call.structure, "lattice_vectors")
    /\ pc \in {"done", "raised"}

BandTag(k) == " BAND: " \o StrInt(k)

\* C2: such a call completes without error: the sink starts with BEGIN_INFO,
\* holds the Fermi energy line and the three reciprocal lattice lines after
\* the "0 0 0" line, every BAND sub-block, ends with END_BANDGRID_3D and
\* END_BLOCK_BANDGRID_3D, and has been flushed.
C2_CompletesAndFlushes ==
    GoodBandCallEnded =>
      LET L == Text.lines
          m == call.bands3d
          o == Pos(L, "0 0 0")
      IN  /\ pc = "done"
          /\ err = "none"
          /\ file.nflush = 1
          /\ L[1] = "BEGIN_INFO"
          /\ At(L, " Fermi Energy: " \o StrFloat(call.fermie)) # {}
          /\ \A i \in 1..3 : L[o + i] = FmtF3(call.structure.gcell[i])
          /\ \A k \in 1..(m.nsppol * m.nband) : At(L, BandTag(k)) # {}
          /\ L[Len(L) - 1] = " END_BANDGRID_3D"
          /\ L[Len(L)] = "END_BLOCK_BANDGRID_3D"

\* C9: the BAND sub-blocks come band-major, spin-minor: the sub-block of
\* (band b, spin s) is tagged b * nsppol + s + 1 and holds the energies of
\* that pair; the tags are 1, 2, ..., nsppol * nband in this order, each
\* once, and the count the header declares is the number of sub-blocks.
C9_BandOrder ==
    GoodBandCallEnded =>
      LET L == Text.lines
          m == call.bands3d
          N == m.nsppol * m.nband
          tags == { i \in 1..Len(L) : \E k \in 0..(N + 1) : L[i] = BandTag(k) }
      IN  /\ L[Pos(L, " BEGIN_BANDGRID_3D") + 1] = StrInt(Cardinality(tags))
          /\ Cardinality(tags) = N
          /\ \A k \in 1..N : Cardinality(At(L, BandTag(k))) = 1
          /\ \A k \in 1..(N - 1) : Pos(L, BandTag(k)) < Pos(L, BandTag(k + 1))
          /\ \A b \in 0..(m.nband - 1), s \in 0..(m.nsppol - 1) :
               LET p == Pos(L, BandTag(b * m.nsppol + s + 1))
                   e == m.enebz[s][b]
               IN  /\ \A i \in 1..Len(e) : L[p + i] = FmtE18(e[i])
                   /\ p + Len(e) + 1 \in tags \cup {Len(L) - 1}

\* -------------------------------------------------------- xsf_write_data
\* xsf_write_data is the function called
DataCall == call.fn = "xsf_write_data"

UpperChar(c) ==
    CASE c = "r" -> "R" [] c = "e" -> "E" [] c = "i" -> "I" [] c = "m" -> "M"
      [] c = "a" -> "A" [] c = "b" -> "B" [] c = "s" -> "S"

\* mode spells word in some mix of upper and lower case
Spells(mode, word) ==
    /\ mode # None
    /\ Len(mode.chars) = Len(word)
    /\ \A i \in 1..Len(word) : mode.chars[i] \in {word[i], UpperChar(word[i])}

Recognized(mode) ==
    \/ Spells(mode, <<"r", "e">>)
    \/ Spells(mode, <<"i", "m">>)
    \/ Spells(mode, <<"a", "b", "s">>)

\* the three ways the arguments of xsf_write_data can be invalid
NoMode == call.data.dtype = "complex" /\ call.cplx_mode = None
BadMode == call.data.dtype = "complex" /\ call.cplx_mode # None /\ ~Recognized(call.cplx_mode)
BadRank == call.data.ndim \notin {3, 4}

RECURSIVE ValAt(_, _)
ValAt(v, ix) == IF ix = <<>> THEN v ELSE ValAt(v[Head(ix)], Tail(ix))

\* the 1-based index tuples of an array of shape shp
Indices(shp) ==
    LET big == CHOOSE d \in { shp[k] : k \in DOMAIN shp } :
                 \A k \in DOMAIN shp : shp[k] <= d
    IN  { ix \in [DOMAIN shp -> 1..big] : \A k \in DOMAIN shp : ix[k] <= shp[k] }

NGridsGiven == IF call.data.ndim = 3 THEN 1 ELSE Shape(call.data)[1]
GridGiven == Last3(Shape(call.data))

\* the validation of xsf_write_data has passed
DataAccepted == DataCall /\ pc \in {"xd_begin", "xd_grid", "done"}

\* C7: with add_replicas, a field of shape (nx, ny, nz) is serialized as a
\* grid of shape (nx+1, ny+1, nz+1) whose last slice along each of the three
\* axes equals its first; the grid axis of a rank-4 field is not padded;
\* without add_replicas the grid has the shape of the input.  The shape of
\* the grid is the one the dimension line of each block gives.
C7_Replicas ==
    DataAccepted =>
      LET pad == IF call.add_replicas THEN 1 ELSE 0
          Nx == GridGiven[1] + pad
          Ny == GridGiven[2] + pad
          Nz == GridGiven[3] + pad
          dims == StrInt(Nx) \o " " \o StrInt(Ny) \o " " \o StrInt(Nz)
          L == Text.lines
      IN  /\ Shape(data) = <<NGridsGiven, Nx, Ny, Nz>>
          /\ call.add_replicas =>
               \A g \in 1..NGridsGiven :
                 /\ \A y \in 1..Ny, z \in 1..Nz : data.v[g][Nx][y][z] = data.v[g][1][y][z]
                 /\ \A x \in 1..Nx, z \in 1..Nz : data.v[g][x][Ny][z] = data.v[g][x][1][z]
                 /\ \A x \in 1..Nx, y \in 1..Ny : data.v[g][x][y][Nz] = data.v[g][x][y][1]
          /\ pc = "done" =>
               /\ Cardinality(At(L, dims)) = NGridsGiven
               /\ \A g \in 1..NGridsGiven :
                    L[Pos(L, " BEGIN_DATAGRID_3Dgrid#" \o StrInt(g)) + 1] = dims
               /\ Len(L) = 3 + NGridsGiven * (7 + Nz * (Ny + 1))

\* C7 witness: a rank-3 field of shape (2, 1, 2) has been written with replicas
C7_Witness ==
    /\ DataCall
    /\ pc = "done"
    /\ call.add_replicas
    /\ Shape(call.data) = <<2, 1, 2>>

\* C10: between one BEGIN_BLOCK_DATAGRID_3D and one END_BLOCK_DATAGRID_3D
\* there is one BEGIN_DATAGRID_3Dgrid#k ... END_DATAGRID_3D block for each
\* grid, k = 1..ngrids in order; in block k, after the dimension line, the
\* origin and the three lattice lines, come for z ascending, and within it y
\* ascending, the line of the values data[k-1, x, y, z] for x ascending, and
\* an empty line after each z: Nz * Ny value lines of Nx values and Nz empty
\* lines for a serialized grid of shape (Nx, Ny, Nz).
C10_GridLayout ==
    (DataCall /\ pc = "done") =>
      LET L == Text.lines
          G == NGridsGiven
          Nx == Shape(data)[2]
          Ny == Shape(data)[3]
          Nz == Shape(data)[4]
          begin(k) == " BEGIN_DATAGRID_3Dgrid#" \o StrInt(k)
          b(k) == Pos(L, begin(k))
          values(k, y, z) == JoinSpace([x \in 1..Nx |-> FmtF(data.v[k][x][y][z], 0, 6)])
      IN  /\ Text.cur = ""
          /\ At(L, "BEGIN_BLOCK_DATAGRID_3D") = {1}
          /\ At(L, "END_BLOCK_DATAGRID_3D") = {Len(L)}
          /\ Cardinality(At(L, " END_DATAGRID_3D")) = G
          /\ \A k \in 0..(G + 1) :
               Cardinality(At(L, begin(k))) = (IF k \in 1..G THEN 1 ELSE 0)
          /\ G > 0 => b(1) = 3
          /\ \A k \in 1..G :
               /\ \A z \in 1..Nz :
                    /\ \A y \in 1..Ny :
                         L[b(k) + 5 + (z - 1) * (Ny + 1) + y] = values(k, y, z)
                    /\ L[b(k) + 5 + z * (Ny + 1)] = ""
               /\ L[b(k) + 5 + Nz * (Ny + 1) + 1] = " END_DATAGRID_3D"
               /\ b(k) + 5 + Nz * (Ny + 1) + 2 = (IF k < G THEN b(k + 1) ELSE Len(L))

\* C10 witness: a field of two grids of shape (1, 2, 2) has been written
C10_Witness ==
    /\ DataCall
    /\ pc = "done"
    /\ ~call.add_replicas
    /\ Shape(call.data) = <<2, 1, 2, 2>>

====
